---- MODULE Spec2Model ----
(***************************************************************************)
(* FIFA career tracker: the response interpreter of the vision service     *)
(* (src/lib/claude-service.ts), the per-file processor of the upload       *)
(* component (src/components/ScreenshotUpload.tsx), the storage helpers    *)
(* (src/lib/database.ts) and the season handlers of the dashboard          *)
(* (src/unnamed/part_001).                                                 *)
(*                                                                         *)
(* Numbers that are fractions in the code are kept in hundredths:          *)
(* confidence 0.3 is 30, 0.31 is 31, 0.5 is 50, 1 is 100.                   *)
(***************************************************************************)
EXTENDS Integers, Sequences, FiniteSets, TLC

\* Longest run of free text put before and after the object of a reply.
MaxPad == 1
\* Most files uploaded in a session, over all upload components.
MaxFiles == 2
\* Most seasons the dashboard's New Season button creates.
MaxSeasons == 2
\* Most seasons in the store when the New Season button is still used, in the
\* session that also clears the store.
MaxKept == 1

\* The upload components alive in a session: the component is mounted anew
\* each time the upload tab is shown, and each browser tab has its own.
Uploads == {"u1", "u2"}
FileNames == {"a.png", "b.png"}

VARIABLES
  analysisText,          \* the reply text given to parseAnalysisResult
  parseResult,           \* what parseAnalysisResult returned for it
  seasons,               \* table seasons, in key order
  seasonKey,             \* last key the ++id generator of seasons gave out
  teamSnapshots,         \* table teamSnapshots
  playerStats,           \* table playerStats
  processedScreenshots,  \* table processedScreenshots
  uploadedFiles,         \* state of each upload component
  isProcessing,
  processingResults,
  pc,                    \* where each processScreenshots run is suspended
  runFiles,              \* the uploadedFiles array the run iterates
  idx,                   \* index of the file of the current iteration
  results,               \* the run's local results array
  analysisResult,        \* result of the current iteration
  currentSeason,         \* saveExtractedData's local (0: undefined)
  raced,                 \* history: two season operations have overlapped
  interfered,            \* history: the createSeason calls another write cut in on
  allSeasons,            \* Dashboard state: ids of the seasons last loaded
  dashSeason,            \* Dashboard state currentSeason (0: null)
  dpc,                   \* where the dashboard handler is suspended
  pending,               \* switchSeason: updates of Promise.all not yet done
  target,                \* switchSeason's argument
  activeTab,             \* Home state: the tab whose component is rendered
  mountedUpload,         \* the upload component now mounted ("none": not shown)
  hpc,                   \* where the Export / Clear handler of Home is suspended
  exportedData,          \* exportData: the arrays read so far, then the document
  txCleared,             \* clearAllData: tables cleared inside the open transaction
  httpOutcome,           \* what the HTTP call of analyzeScreenshot came to
  analysis,              \* the promise analyzeScreenshot returned for it
  progressData,          \* the promise getProgressData returned
  progressSeason         \* the seasonId that call was given (0: not called)

storeVars == <<seasons, seasonKey, teamSnapshots, playerStats, processedScreenshots>>
parseVars == <<analysisText, parseResult>>
uploadVars == <<uploadedFiles, isProcessing, processingResults, pc, runFiles, idx,
                results, analysisResult, currentSeason>>
histVars == <<raced, interfered>>
dashVars == <<allSeasons, dashSeason, dpc, pending, target>>
tabVars == <<activeTab, mountedUpload>>
homeVars == <<hpc, exportedData, txCleared>>
fnVars == <<httpOutcome, analysis, progressData, progressSeason>>
vars == <<parseVars, storeVars, uploadVars, dashVars, histVars, tabVars, homeVars, fnVars>>
uiVars == <<uploadedFiles, isProcessing, processingResults>>
loopVars == <<runFiles, idx, results, analysisResult>>

(***************************************************************************)
(* Reply text.  A reply is a sequence of tokens [key, val].  "{" and "}"   *)
(* are the brace characters, "x" is any other character of prose, and a    *)
(* token with another key is the text of one member  "key": val  of a JSON *)
(* object (the separating commas are part of the member text).  A member   *)
(* whose string value holds a closing brace still shows that brace to a    *)
(* scan of the characters.                                                 *)
(***************************************************************************)
Tok(k, v) == [key |-> k, val |-> v]
LB == Tok("{", "")
RB == Tok("}", "")
Prose == Tok("x", "")

IsMember(t) == t.key \notin {"{", "}", "x"}
\* the characters "{" and "}" as the regular expression sees them
HasOpenChar(t) == t.key = "{"
HasCloseChar(t) == t.key = "}" \/ (IsMember(t) /\ t.val = "\"}\"")

(***************************************************************************)
(* JSON values are kept as their text.  "absent" is a member that is not   *)
(* there (undefined after JSON.parse).                                     *)
(***************************************************************************)
NumVal(v) ==
  CASE v = "-0.1" -> -10
    [] v = "0"    -> 0
    [] v = "0.3"  -> 30
    [] v = "0.31" -> 31
    [] v = "0.9"  -> 90
    [] v = "1"    -> 100
    [] v = "1.5"  -> 150
    [] v = "2"    -> 200
    [] v = "3"    -> 300
    [] OTHER      -> 0

NumberTexts == {"-0.1", "0", "0.3", "0.31", "0.9", "1", "1.5", "2", "3"}
\* typeof v === 'number'
IsNumber(v) == v \in NumberTexts
\* JavaScript truthiness of a parsed value: undefined, null, 0, false and ""
\* are falsy; every object, array and non-empty string is truthy.
Falsy(v) == v \in {"absent", "null", "0", "false", "\"\""}
Truthy(v) == ~Falsy(v)

ValidTypes == {"league_table", "team_stats", "player_stats", "unknown"}

(***************************************************************************)
(* analysisText.match(/\{[\s\S]*\}/): the leftmost "{" and, the star being *)
(* greedy, the last "}" after it.                                          *)
(***************************************************************************)
OpenAt(text) == {i \in 1..Len(text) : HasOpenChar(text[i])}
CloseAt(text) == {i \in 1..Len(text) : HasCloseChar(text[i])}
Min(S) == CHOOSE x \in S : \A y \in S : x <= y
Max(S) == CHOOSE x \in S : \A y \in S : x >= y

Matches(text) ==
  /\ OpenAt(text) # {}
  /\ \E j \in CloseAt(text) : j > Min(OpenAt(text))

jsonMatch(text) == SubSeq(text, Min(OpenAt(text)), Max(CloseAt(text)))

(***************************************************************************)
(* JSON.parse of a span.  The span is the text of an object when it opens  *)
(* with "{", closes with the character "}" and holds only members between  *)
(* them; a span that stops at a brace inside a string value is cut in the  *)
(* middle of that string and is no JSON.  A later member replaces an       *)
(* earlier one with the same key.                                          *)
(***************************************************************************)
IsJSON(span) ==
  /\ Len(span) >= 2
  /\ span[1] = LB
  /\ span[Len(span)] = RB
  /\ \A i \in 2..(Len(span) - 1) : IsMember(span[i])

Member(span, k) ==
  LET at == {i \in 2..(Len(span) - 1) : span[i].key = k}
  IN IF at = {} THEN "absent" ELSE span[Max(at)].val

JSONparse(span) ==
  [type       |-> Member(span, "type"),
   confidence |-> Member(span, "confidence"),
   data       |-> Member(span, "data"),
   errors     |-> Member(span, "errors")]

(***************************************************************************)
(* ClaudeVisionService.parseAnalysisResult                                 *)
(***************************************************************************)
ParseFallback ==
  [type |-> "unknown", confidence |-> 0, data |-> "null",
   errors |-> "[\"Failed to parse analysis result\"]"]

\* mutant: the type is tested for presence only
acceptAnyType(parsed) == Truthy(parsed.type)

ValidType(parsed) == Truthy(parsed.type) /\ parsed.type \in ValidTypes

\* mutant: the upper end of the interval is excluded
coerceClosedOpen(c) ==
  IF ~IsNumber(c) \/ NumVal(c) < 0 \/ NumVal(c) >= 100 THEN 50 ELSE NumVal(c)

coerceConfidence(c) ==
  IF ~IsNumber(c) \/ NumVal(c) < 0 \/ NumVal(c) > 100 THEN 50 ELSE NumVal(c)

\* mutant: data is passed on as parsed
keepParsed(v) == v

orNull(v) == IF Truthy(v) THEN v ELSE "null"
orEmptyList(v) == IF Truthy(v) THEN v ELSE "[]"

buildResult(parsed) ==
  [type       |-> parsed.type,
   confidence |-> coerceConfidence(parsed.confidence),
   data       |-> orNull(parsed.data),
   errors     |-> orEmptyList(parsed.errors)]

parseAnalysisResult(text) ==
  IF ~Matches(text) THEN ParseFallback
  ELSE LET span == jsonMatch(text) IN
       IF ~IsJSON(span) THEN ParseFallback
       ELSE LET parsed == JSONparse(span) IN
            IF ~ValidType(parsed) THEN ParseFallback
            ELSE buildResult(parsed)

(***************************************************************************)
(* Payloads.  The data member of a reply is one of these object texts (or  *)
(* a value that is no object); the operators below read the members the    *)
(* save step reads.  Of the twelve league members and the eight player     *)
(* members, each mapped with the same  value || default  pattern, the      *)
(* model keeps teamName and position, and name and goals.                  *)
(***************************************************************************)
D_league == "{teamName:A,position:3}"
D_players == "{players:[{name:P,goals:2},{}]}"
D_playersBad == "{players:none}"
D_team == "{teamName:A,overallRating:80}"

teamNameOf(data) == IF data \in {D_league, D_team} THEN "A" ELSE "absent"
positionOf(data) == IF data = D_league THEN "3" ELSE "absent"
\* Array.isArray(playerData.players)
playersIsArray(data) == data = D_players
playersOf(data) ==
  IF data = D_players
  THEN <<[name |-> "P", goals |-> "2"], [name |-> "absent", goals |-> "absent"]>>
  ELSE <<>>

orText(v, default) == IF Truthy(v) THEN v ELSE default
orZero(v) == IF Truthy(v) THEN NumVal(v) ELSE 0

(***************************************************************************)
(* The store (src/lib/database.ts).  Each helper is one awaited Dexie call *)
(* and is one step; a query is taken to return what its where clause       *)
(* reads as (the rows whose isActive is true, the rows with the filename). *)
(* The field src of a stored record is not stored by the                   *)
(* code: it names the uploaded file (or the dashboard) whose handler wrote *)
(* the record, so that properties can speak of "the records of a file".    *)
(***************************************************************************)
Dashboard == [tab |-> "dashboard", n |-> 0]

ActiveSeasons(ss) == {i \in 1..Len(ss) : ss[i].isActive}

\* mutant: the modify matches no row
deactivateNothing(ss) == ss

\* mutant: the active seasons are deleted instead of modified
deleteActive(ss) == SelectSeq(ss, LAMBDA r : ~r.isActive)

\* db.seasons.where('isActive').equals(true).modify({ isActive: false })
deactivateActive(ss) == [i \in 1..Len(ss) |-> [ss[i] EXCEPT !.isActive = FALSE]]

\* the name a caller of createSeason gives: the text of the prompt on the
\* dashboard, `Season ${year}` in a save
seasonName(by) == IF by = Dashboard THEN "prompted" ELSE "Season 2026"

\* mutant: the season is added without its isActive flag
addSeasonInactive(ss, key, active, by) ==
  Append(ss, [id |-> key + 1, name |-> seasonName(by), isActive |-> FALSE, src |-> by])

\* db.seasons.add({...seasonData, createdAt}) with the next ++id key
addSeason(ss, key, active, by) ==
  Append(ss, [id |-> key + 1, name |-> seasonName(by), isActive |-> active, src |-> by])

\* db.seasons.where('isActive').equals(true).first(): the id, 0 for undefined
getCurrentSeason(ss) ==
  IF ActiveSeasons(ss) = {} THEN 0 ELSE ss[Min(ActiveSeasons(ss))].id

\* db.seasons.update(id, { isActive: v }): no row with the key, no change
updateSeason(ss, id, v) ==
  [i \in 1..Len(ss) |-> IF ss[i].id = id THEN [ss[i] EXCEPT !.isActive = v] ELSE ss[i]]

isScreenshotProcessed(filename) ==
  \E i \in 1..Len(processedScreenshots) : processedScreenshots[i].filename = filename

marker(filename, result, by) ==
  [filename |-> filename, screenshotType |-> result.type,
   extractedData |-> result.data, confidence |-> result.confidence, src |-> by]

\* a promise: pending, or settled as resolved with a value or as rejected
NotSettled == [state |-> "pending", value |-> "none"]
Resolved(v) == [state |-> "resolved", value |-> v]
Rejected == [state |-> "rejected", value |-> "none"]

(***************************************************************************)
(* analyzeScreenshot: what the HTTP call can come to, and the result.      *)
(***************************************************************************)
errorResult(message) ==
  [type |-> "unknown", confidence |-> 0, data |-> "null", errors |-> message]

\* The outcomes of the HTTP call: fetch throws ("throws"), the status is not
\* OK ("status"), response.json() rejects ("notjson"), the body has no
\* content[0] ("badbody"), content[0] has no text ("notext": the undefined
\* text makes parseAnalysisResult throw inside its own try), or a reply text.
analyzeScreenshot(outcome) ==
  CASE outcome.kind = "throws"  -> errorResult("[\"Failed to fetch\"]")
    [] outcome.kind = "status"  -> errorResult("[\"Claude API error: 500\"]")
    [] outcome.kind = "notjson" -> errorResult("[\"Unexpected token < in JSON\"]")
    [] outcome.kind = "badbody" -> errorResult("[\"Cannot read properties of undefined\"]")
    [] outcome.kind = "notext"  -> ParseFallback
    [] OTHER                    -> parseAnalysisResult(outcome.text)

\* mutant: the error for a status that is not OK is thrown outside the try
analyzeScreenshotRethrows(outcome) ==
  IF outcome.kind = "status" THEN Rejected ELSE Resolved(analyzeScreenshot(outcome))

\* the promise analyzeScreenshot returns: its whole body is inside the try
\* block and the catch block returns a result
analyzeScreenshotPromise(outcome) == Resolved(analyzeScreenshot(outcome))

Reply(type, confidence, data) ==
  <<Prose, LB, Tok("type", type), Tok("confidence", confidence), Tok("data", data), RB>>

Text(t) == [kind |-> "text", text |-> t]
Failure(k) == [kind |-> k, text |-> <<>>]

ApiOutcomes ==
  { Failure("throws"), Failure("status"), Failure("badbody"), Text(<<Prose>>),
    Text(Reply("league_table", "0.3", D_league)),
    Text(Reply("league_table", "0.31", D_league)),
    Text(Reply("league_table", "0.9", "null")),
    Text(Reply("team_stats", "0.9", D_team)),
    Text(Reply("player_stats", "0.9", D_players)) }

(***************************************************************************)
(* processScreenshots (ScreenshotUpload.tsx 88-152) and saveExtractedData  *)
(* (155-213).  A step runs from one await to the next.                     *)
(***************************************************************************)
FileId(c, n) == [tab |-> c, n |-> n]

\* The handlers that write the seasons table: the upload runs and the dashboard.
Procs == Uploads \cup {"dashboard"}
\* q is inside createSeason, switchSeason or the get-or-create of a save
inSeasonOp(q) ==
  IF q = "dashboard" THEN dpc \in {"createModify", "createAdd", "deactivate", "activate"}
  ELSE pc[q] \in {"createModify", "createAdd"}
\* q is between the two awaits of createSeason
midCreate(q) == IF q = "dashboard" THEN dpc = "createAdd" ELSE pc[q] = "createAdd"
TotalFiles == LET RECURSIVE Sum(_)
                  Sum(S) == IF S = {} THEN 0
                            ELSE LET c == CHOOSE x \in S : TRUE
                                 IN Len(uploadedFiles[c]) + Sum(S \ {c})
              IN Sum(Uploads)

curFile(c) == runFiles[c][idx[c]]

skippedResult == errorResult("[\"Screenshot already processed\"]")

\* mutant: the threshold is included
shouldSaveAtLeast(result) == result.confidence >= 30 /\ Truthy(result.data)

\* analysisResult.confidence > 0.3 && analysisResult.data
shouldSave(result) == result.confidence > 30 /\ Truthy(result.data)

\* handleFiles: the files that pass the type and size filter are appended
handleFiles(c, names) ==
  /\ pc[c] = "idle"
  /\ names # <<>>
  /\ TotalFiles + Len(names) <= MaxFiles
  /\ uploadedFiles' = [uploadedFiles EXCEPT ![c] =
       @ \o [i \in 1..Len(names) |-> [id |-> FileId(c, Len(@) + i), name |-> names[i]]]]
  /\ UNCHANGED <<parseVars, fnVars, homeVars, tabVars, storeVars, dashVars, isProcessing, processingResults, pc,
                 runFiles, idx, results, analysisResult, currentSeason, histVars>>

\* the numbers of the file ids the component c still holds somewhere
heldFileNumbers(c) ==
  {uploadedFiles[c][i].id.n : i \in 1..Len(uploadedFiles[c])}
    \cup {runFiles[c][i].id.n : i \in 1..Len(runFiles[c])}
    \cup {processingResults[c][i].fileId.n : i \in 1..Len(processingResults[c])}

\* handleFiles at any moment of the component, a run in progress or not: the
\* ids `${Date.now()}-${Math.random()...}` are new ones
addFiles(c, names) ==
  /\ names # <<>>
  /\ TotalFiles + Len(names) <= MaxFiles
  /\ uploadedFiles' = [uploadedFiles EXCEPT ![c] =
       @ \o [i \in 1..Len(names) |->
               [id |-> FileId(c, Max({0} \cup heldFileNumbers(c)) + i), name |-> names[i]]]]
  /\ UNCHANGED <<parseVars, fnVars, homeVars, tabVars, storeVars, dashVars, isProcessing, processingResults, pc,
                 runFiles, idx, results, analysisResult, currentSeason, histVars>>

\* removeFile(fileId): the button on the preview of an uploaded file
removeFile(c, fileId) ==
  /\ \E i \in 1..Len(uploadedFiles[c]) : uploadedFiles[c][i].id = fileId
  /\ uploadedFiles' = [uploadedFiles EXCEPT ![c] = SelectSeq(@, LAMBDA f : f.id # fileId)]
  /\ processingResults' = [processingResults EXCEPT ![c] =
       SelectSeq(@, LAMBDA r : r.fileId # fileId)]
  /\ UNCHANGED <<parseVars, fnVars, homeVars, tabVars, storeVars, dashVars, isProcessing, pc,
                 runFiles, idx, results, analysisResult, currentSeason, histVars>>

\* the click on Analyze, up to the first await of the loop
startProcessing(c) ==
  /\ pc[c] = "idle"
  /\ ~isProcessing[c]
  /\ uploadedFiles[c] # <<>>
  /\ isProcessing' = [isProcessing EXCEPT ![c] = TRUE]
  /\ runFiles' = [runFiles EXCEPT ![c] = uploadedFiles[c]]
  /\ idx' = [idx EXCEPT ![c] = 1]
  /\ results' = [results EXCEPT ![c] = <<>>]
  /\ pc' = [pc EXCEPT ![c] = "lookup"]
  /\ UNCHANGED <<parseVars, fnVars, homeVars, tabVars, storeVars, dashVars, uploadedFiles, processingResults,
                 analysisResult, currentSeason, histVars>>

\* the end of an iteration: the next file's lookup, or after the last file
\* setProcessingResults(results), onDataExtracted (Home's handleDataExtracted
\* shows the dashboard tab, which unmounts the upload component on screen)
\* and the finally block
nextFile(c, res) ==
  /\ results' = [results EXCEPT ![c] = res]
  /\ IF idx[c] < Len(runFiles[c])
     THEN /\ idx' = [idx EXCEPT ![c] = @ + 1]
          /\ pc' = [pc EXCEPT ![c] = "lookup"]
          /\ UNCHANGED <<processingResults, isProcessing, tabVars>>
     ELSE /\ pc' = [pc EXCEPT ![c] = "done"]
          /\ processingResults' = [processingResults EXCEPT ![c] = res]
          /\ activeTab' = "dashboard"
          /\ mountedUpload' = "none"
          /\ isProcessing' = [isProcessing EXCEPT ![c] = FALSE]
          /\ UNCHANGED idx

\* mutant: a file found marked is passed over without an entry in results
lookupSkipsUnrecorded(c) ==
  /\ pc[c] = "lookup"
  /\ IF isScreenshotProcessed(curFile(c).name)
     THEN nextFile(c, results[c])
     ELSE /\ pc' = [pc EXCEPT ![c] = "read"]
          /\ UNCHANGED <<results, idx, processingResults, isProcessing, tabVars>>
  /\ UNCHANGED <<parseVars, fnVars, homeVars, storeVars, dashVars, uploadedFiles, runFiles,
                 analysisResult, currentSeason, histVars>>

\* await dbHelpers.isScreenshotProcessed(uploadedFile.file.name)
lookup(c) ==
  /\ pc[c] = "lookup"
  /\ IF isScreenshotProcessed(curFile(c).name)
     THEN nextFile(c, Append(results[c],
            [fileId |-> curFile(c).id, result |-> skippedResult, processed |-> FALSE]))
     ELSE /\ pc' = [pc EXCEPT ![c] = "read"]
          /\ UNCHANGED <<results, idx, processingResults, isProcessing, tabVars>>
  /\ UNCHANGED <<parseVars, fnVars, homeVars, storeVars, dashVars, uploadedFiles, runFiles,
                 analysisResult, currentSeason, histVars>>

\* await fileToBase64(file) resolves and analyzeScreenshot posts the request
sendToApi(c) ==
  /\ pc[c] = "read"
  /\ pc' = [pc EXCEPT ![c] = "analyze"]
  /\ UNCHANGED <<parseVars, fnVars, homeVars, tabVars, storeVars, dashVars, uploadedFiles, isProcessing,
                 processingResults, runFiles, idx, results, analysisResult, currentSeason, histVars>>

\* mutant: the save and the marker write are started but not awaited, and
\* the loop goes on to the next file at once
recordResultNoAwait(c, r) ==
  /\ pc[c] = "analyze"
  /\ analysisResult' = [analysisResult EXCEPT ![c] = r]
  /\ nextFile(c, Append(results[c],
         [fileId |-> curFile(c).id, result |-> r, processed |-> TRUE]))
  /\ UNCHANGED <<parseVars, fnVars, homeVars, storeVars, dashVars, histVars, uploadedFiles, runFiles,
                 currentSeason>>

\* the rest of an iteration once analyzeScreenshot has settled with r:
\* results.push and the test that guards the save (126-141)
recordResult(c, r) ==
  /\ pc[c] = "analyze"
  /\ LET res == Append(results[c],
                  [fileId |-> curFile(c).id, result |-> r, processed |-> TRUE])
     IN /\ analysisResult' = [analysisResult EXCEPT ![c] = r]
        /\ IF shouldSave(r)
           THEN /\ pc' = [pc EXCEPT ![c] = "getSeason"]
                /\ results' = [results EXCEPT ![c] = res]
                /\ UNCHANGED <<idx, processingResults, isProcessing, tabVars>>
           ELSE nextFile(c, res)
  /\ UNCHANGED <<parseVars, fnVars, homeVars, storeVars, dashVars, histVars, uploadedFiles, runFiles,
                 currentSeason>>

\* mutant: no finally block, isProcessing stays set after an exception
loopThrowsNoFinally(c) ==
  /\ pc' = [pc EXCEPT ![c] = "done"]
  /\ UNCHANGED <<parseVars, fnVars, homeVars, tabVars, storeVars, dashVars, histVars, uploadedFiles,
                 isProcessing, processingResults, runFiles, idx, results, analysisResult,
                 currentSeason>>

\* an exception leaves the loop: the catch block alerts, the finally block
\* clears isProcessing, and the results of the run are never published
loopThrows(c) ==
  /\ pc' = [pc EXCEPT ![c] = "done"]
  /\ isProcessing' = [isProcessing EXCEPT ![c] = FALSE]
  /\ UNCHANGED <<parseVars, fnVars, homeVars, tabVars, storeVars, dashVars, histVars, uploadedFiles,
                 processingResults, runFiles, idx, results, analysisResult, currentSeason>>

\* fileToBase64 rejects (reader.onerror)
readFails(c) ==
  /\ pc[c] = "read"
  /\ loopThrows(c)

\* await dbHelpers.isScreenshotProcessed(...) rejects (the storage call fails)
lookupFails(c) ==
  /\ pc[c] = "lookup"
  /\ loopThrows(c)

\* await dbHelpers.markScreenshotProcessed(...) rejects
markFails(c) ==
  /\ pc[c] = "mark"
  /\ loopThrows(c)

\* mutant: analyzeScreenshot lets the failure of the HTTP call escape
analyzedUncaught(c, outcome) ==
  IF outcome.kind = "text"
  THEN recordResult(c, analyzeScreenshot(outcome))
  ELSE pc[c] = "analyze" /\ loopThrows(c)

\* await claude.analyzeScreenshot(data, type) settles
analyzed(c, outcome) == recordResult(c, analyzeScreenshot(outcome))

\* what saveExtractedData does once it holds a season: the table it will
\* write to, or the return when the type has no branch
afterSeason(c, season) ==
  LET r == analysisResult[c] IN
  IF season = 0 THEN "mark"
  ELSE IF r.type = "league_table" /\ Truthy(r.data) THEN "addTeamSnapshot"
  ELSE IF r.type = "player_stats" /\ Truthy(r.data) /\ playersIsArray(r.data)
       THEN "addPlayerStats"
  ELSE "mark"

\* let currentSeason = await dbHelpers.getCurrentSeason()
saveGetSeason(c) ==
  /\ pc[c] = "getSeason"
  /\ LET s == getCurrentSeason(seasons)
     IN /\ currentSeason' = [currentSeason EXCEPT ![c] = s]
        /\ pc' = [pc EXCEPT ![c] = IF s = 0 THEN "createModify" ELSE afterSeason(c, s)]
        /\ raced' = (raced \/ (s = 0 /\ \E q \in Procs \ {c} : inSeasonOp(q)))
  /\ UNCHANGED <<parseVars, fnVars, homeVars, tabVars, storeVars, dashVars, uploadedFiles, isProcessing,
                 processingResults, runFiles, idx, results, analysisResult, interfered>>

\* createSeason, first await: deactivate the active seasons
saveCreateModify(c) ==
  /\ pc[c] = "createModify"
  /\ seasons' = deactivateActive(seasons)
  /\ pc' = [pc EXCEPT ![c] = "createAdd"]
  /\ UNCHANGED <<seasonKey, teamSnapshots, playerStats, processedScreenshots>>
  /\ UNCHANGED <<parseVars, fnVars, homeVars, tabVars, dashVars, uiVars, loopVars, currentSeason, raced>>
  /\ interfered' = (interfered \ {c}) \cup {q \in Procs \ {c} : midCreate(q)}

\* createSeason, second await: add the season, isActive: true
saveCreateAdd(c) ==
  /\ pc[c] = "createAdd"
  /\ seasons' = addSeason(seasons, seasonKey, TRUE, curFile(c).id)
  /\ seasonKey' = seasonKey + 1
  /\ pc' = [pc EXCEPT ![c] = "getSeasonAgain"]
  /\ UNCHANGED <<teamSnapshots, playerStats, processedScreenshots>>
  /\ UNCHANGED <<parseVars, fnVars, homeVars, tabVars, dashVars, uiVars, loopVars, currentSeason, raced>>
  /\ interfered' = interfered \cup {q \in Procs \ {c} : midCreate(q)}

\* currentSeason = await dbHelpers.getCurrentSeason(); if (!currentSeason) return
saveGetSeasonAgain(c) ==
  /\ pc[c] = "getSeasonAgain"
  /\ LET s == getCurrentSeason(seasons)
     IN /\ currentSeason' = [currentSeason EXCEPT ![c] = s]
        /\ pc' = [pc EXCEPT ![c] = afterSeason(c, s)]
  /\ UNCHANGED <<parseVars, fnVars, homeVars, tabVars, storeVars, dashVars, uiVars, loopVars, histVars>>

\* a storage call of saveExtractedData rejects: its catch block logs the
\* error and the function returns, so the caller goes on to write the marker
saveFails(c) ==
  /\ pc[c] \in {"getSeason", "createModify", "createAdd", "getSeasonAgain",
               "addTeamSnapshot", "addPlayerStats"}
  /\ pc' = [pc EXCEPT ![c] = "mark"]
  /\ UNCHANGED <<parseVars, fnVars, homeVars, tabVars, storeVars, dashVars, uiVars, loopVars,
                 currentSeason, histVars>>

teamSnapshot(seasonId, data, by) ==
  [seasonId |-> seasonId,
   teamName |-> orText(teamNameOf(data), "Unknown Team"),
   position |-> orZero(positionOf(data)),
   src      |-> by]

playerRecord(seasonId, player, by) ==
  [seasonId   |-> seasonId,
   playerName |-> orText(player.name, "Unknown Player"),
   goals      |-> orZero(player.goals),
   src        |-> by]

\* await dbHelpers.addTeamSnapshot({...})
saveAddTeamSnapshot(c) ==
  /\ pc[c] = "addTeamSnapshot"
  /\ teamSnapshots' = Append(teamSnapshots,
       teamSnapshot(currentSeason[c], analysisResult[c].data, curFile(c).id))
  /\ pc' = [pc EXCEPT ![c] = "mark"]
  /\ UNCHANGED <<seasons, seasonKey, playerStats, processedScreenshots>>
  /\ UNCHANGED <<parseVars, fnVars, homeVars, tabVars, dashVars, uiVars, loopVars, currentSeason, histVars>>

\* await dbHelpers.addPlayerStats(playerStats): bulkAdd of the mapped players
saveAddPlayerStats(c) ==
  /\ pc[c] = "addPlayerStats"
  /\ LET players == playersOf(analysisResult[c].data)
     IN playerStats' = playerStats \o
          [i \in 1..Len(players) |->
             playerRecord(currentSeason[c], players[i], curFile(c).id)]
  /\ pc' = [pc EXCEPT ![c] = "mark"]
  /\ UNCHANGED <<seasons, seasonKey, teamSnapshots, processedScreenshots>>
  /\ UNCHANGED <<parseVars, fnVars, homeVars, tabVars, dashVars, uiVars, loopVars, currentSeason, histVars>>

\* await dbHelpers.markScreenshotProcessed(name, type, data, confidence)
markProcessed(c) ==
  /\ pc[c] = "mark"
  /\ processedScreenshots' = Append(processedScreenshots,
       marker(curFile(c).name, analysisResult[c], curFile(c).id))
  /\ nextFile(c, results[c])
  /\ UNCHANGED <<seasons, seasonKey, teamSnapshots, playerStats>>
  /\ UNCHANGED <<parseVars, fnVars, homeVars, dashVars, uploadedFiles, runFiles, analysisResult,
                 currentSeason, histVars>>

(***************************************************************************)
(* Dashboard (src/unnamed/part_001 315-398): loadData, createNewSeason and *)
(* switchSeason.  One handler of the dashboard is in flight at a time.     *)
(***************************************************************************)
seasonIds(ss) == {ss[i].id : i \in 1..Len(ss)}

\* loadData on mount or refresh: getCurrentSeason and getAllSeasons
loadData ==
  /\ dpc \in {"idle", "load"}
  /\ allSeasons' = seasonIds(seasons)
  /\ dashSeason' = getCurrentSeason(seasons)
  /\ dpc' = "idle"
  /\ UNCHANGED <<parseVars, fnVars, homeVars, tabVars, storeVars, uploadVars, histVars, pending, target>>

\* createNewSeason: the prompt returned a name
createNewSeason ==
  /\ dpc = "idle"
  /\ seasonKey < MaxSeasons
  /\ dpc' = "createModify"
  /\ raced' = (raced \/ \E q \in Uploads : inSeasonOp(q))
  /\ UNCHANGED <<parseVars, fnVars, homeVars, tabVars, storeVars, uploadVars, interfered,
                 allSeasons, dashSeason, pending, target>>

dashCreateModify ==
  /\ dpc = "createModify"
  /\ seasons' = deactivateActive(seasons)
  /\ dpc' = "createAdd"
  /\ interfered' = (interfered \ {"dashboard"}) \cup {q \in Uploads : midCreate(q)}
  /\ UNCHANGED <<seasonKey, teamSnapshots, playerStats, processedScreenshots>>
  /\ UNCHANGED <<parseVars, fnVars, homeVars, tabVars, uploadVars, raced,
                 allSeasons, dashSeason, pending, target>>

dashCreateAdd ==
  /\ dpc = "createAdd"
  /\ seasons' = addSeason(seasons, seasonKey, TRUE, Dashboard)
  /\ seasonKey' = seasonKey + 1
  /\ dpc' = "load"
  /\ interfered' = interfered \cup {q \in Uploads : midCreate(q)}
  /\ UNCHANGED <<teamSnapshots, playerStats, processedScreenshots>>
  /\ UNCHANGED <<parseVars, fnVars, homeVars, tabVars, uploadVars, raced,
                 allSeasons, dashSeason, pending, target>>

\* switchSeason(seasonId): the select lists allSeasons, is shown when the
\* dashboard holds a current season and fires when another option than that
\* season is chosen; Promise.all starts one update a season
switchSeason(seasonId) ==
  /\ dpc = "idle"
  /\ dashSeason # 0
  /\ seasonId \in allSeasons
  /\ seasonId # dashSeason
  /\ target' = seasonId
  /\ pending' = allSeasons
  /\ dpc' = "deactivate"
  /\ raced' = (raced \/ (\E q \in Uploads : inSeasonOp(q))
                     \/ allSeasons # seasonIds(seasons))
  /\ UNCHANGED <<parseVars, fnVars, homeVars, tabVars, storeVars, uploadVars, interfered,
                 allSeasons, dashSeason>>

\* one db.seasons.update(season.id, { isActive: false }) of the Promise.all
switchDeactivate(id) ==
  /\ dpc = "deactivate"
  /\ id \in pending
  /\ seasons' = updateSeason(seasons, id, FALSE)
  /\ pending' = pending \ {id}
  /\ dpc' = IF pending = {id} THEN "activate" ELSE "deactivate"
  /\ interfered' = interfered \cup {q \in Uploads : midCreate(q)}
  /\ UNCHANGED <<seasonKey, teamSnapshots, playerStats, processedScreenshots>>
  /\ UNCHANGED <<parseVars, fnVars, homeVars, tabVars, uploadVars, raced, allSeasons, dashSeason, target>>

\* await db.seasons.update(seasonId, { isActive: true })
switchActivate ==
  /\ dpc = "activate"
  /\ seasons' = updateSeason(seasons, target, TRUE)
  /\ dpc' = "load"
  /\ interfered' = interfered \cup {q \in Uploads : midCreate(q)}
  /\ UNCHANGED <<seasonKey, teamSnapshots, playerStats, processedScreenshots>>
  /\ UNCHANGED <<parseVars, fnVars, homeVars, tabVars, uploadVars, raced, allSeasons, dashSeason,
                 pending, target>>

(***************************************************************************)
(* Home (src/unnamed/part_001 249-279): the Export Data and Clear All Data *)
(* buttons, with exportData and clearAllData of src/lib/database.ts.       *)
(* exportData starts three toArray reads with Promise.all, each a request  *)
(* of its own; clearAllData clears the four tables inside one read-write   *)
(* transaction, whose effects reach the store when it commits and are      *)
(* dropped when it aborts.  The key generators are not reset by a clear.   *)
(***************************************************************************)
ExportedTables == {"seasons", "teamSnapshots", "playerStats"}

\* exportData has not been called
NoExport == [seasons |-> <<>>, teamSnapshots |-> <<>>, playerStats |-> <<>>,
             exportDate |-> "absent", unread |-> {}]

tableOf(name) ==
  CASE name = "seasons"       -> seasons
    [] name = "teamSnapshots" -> teamSnapshots
    [] name = "playerStats"   -> playerStats
    [] OTHER                  -> processedScreenshots

\* the click on Export Data: Promise.all starts the three reads
exportStart ==
  /\ hpc = "idle"
  /\ hpc' = "exporting"
  /\ exportedData' = [NoExport EXCEPT !.unread = ExportedTables]
  /\ UNCHANGED <<parseVars, fnVars, tabVars, storeVars, uploadVars, dashVars, histVars,
                 txCleared>>

\* one toArray() of the Promise.all resolves; after the last one the document
\* { exportDate, seasons, teamSnapshots, playerStats } is returned and saved
exportRead(name) ==
  /\ hpc = "exporting"
  /\ name \in exportedData.unread
  /\ exportedData' =
       [exportedData EXCEPT ![name] = tableOf(name),
                            !.unread = @ \ {name},
                            !.exportDate = IF exportedData.unread = {name}
                                           THEN "set" ELSE "absent"]
  /\ hpc' = IF exportedData.unread = {name} THEN "idle" ELSE "exporting"
  /\ UNCHANGED <<parseVars, fnVars, tabVars, storeVars, uploadVars, dashVars, histVars,
                 txCleared>>

\* a read rejects: Promise.all rejects, the handler alerts 'Export failed'
exportFails ==
  /\ hpc = "exporting"
  /\ hpc' = "idle"
  /\ exportedData' = NoExport
  /\ UNCHANGED <<parseVars, fnVars, tabVars, storeVars, uploadVars, dashVars, histVars,
                 txCleared>>

\* the number of tables the transaction of clearAllData clears, in the order
\* seasons, teamSnapshots, playerStats, processedScreenshots
TableCount == 4

\* mutant: the clear of teamSnapshots is left out
afterClearButSnapshots(table, n, k) == IF k <= n /\ k # 2 THEN <<>> ELSE table

\* table number k as the transaction sees it after its first n clears
afterClear(table, n, k) == IF k <= n THEN <<>> ELSE table

\* mutant: the clears are not undone (they run outside a transaction)
notRolledBack(table, n, k) == afterClear(table, n, k)

\* table number k after the transaction aborted with n clears done
rolledBack(table, n, k) == table

\* the click on Clear All Data, confirmed: the transaction opens
clearStart ==
  /\ hpc = "idle"
  /\ hpc' = "clearing"
  /\ txCleared' = 0
  /\ UNCHANGED <<parseVars, fnVars, tabVars, storeVars, uploadVars, dashVars, histVars,
                 exportedData>>

\* await db.<table>.clear() inside the transaction
clearTable ==
  /\ hpc = "clearing"
  /\ txCleared < TableCount
  /\ txCleared' = txCleared + 1
  /\ UNCHANGED <<parseVars, fnVars, tabVars, storeVars, uploadVars, dashVars, histVars,
                 hpc, exportedData>>

\* the transaction commits; setRefreshTrigger and the alert end the handler
clearCommit ==
  /\ hpc = "clearing"
  /\ txCleared = TableCount
  /\ seasons' = afterClear(seasons, txCleared, 1)
  /\ teamSnapshots' = afterClear(teamSnapshots, txCleared, 2)
  /\ playerStats' = afterClear(playerStats, txCleared, 3)
  /\ processedScreenshots' = afterClear(processedScreenshots, txCleared, 4)
  /\ hpc' = "idle"
  /\ txCleared' = 0
  /\ interfered' = interfered \cup {q \in Procs : midCreate(q)}
  /\ UNCHANGED <<parseVars, fnVars, tabVars, seasonKey, uploadVars, dashVars, raced,
                 exportedData>>

\* a clear rejects: the transaction aborts, clearAllData throws and the
\* handler alerts 'Failed to clear data'
clearAbort ==
  /\ hpc = "clearing"
  /\ seasons' = rolledBack(seasons, txCleared, 1)
  /\ teamSnapshots' = rolledBack(teamSnapshots, txCleared, 2)
  /\ playerStats' = rolledBack(playerStats, txCleared, 3)
  /\ processedScreenshots' = rolledBack(processedScreenshots, txCleared, 4)
  /\ hpc' = "idle"
  /\ txCleared' = 0
  /\ UNCHANGED <<parseVars, fnVars, tabVars, seasonKey, uploadVars, dashVars, histVars,
                 exportedData>>

(***************************************************************************)
(* The specification of the session: uploads, saves and the dashboard.     *)
(***************************************************************************)
NoResult == errorResult("[]")
\* no HTTP call was made
NoOutcome == [kind |-> "none", text |-> <<>>]
\* parseAnalysisResult has not returned yet
NotParsed == [type |-> "", confidence |-> -1, data |-> "", errors |-> ""]

InitStore ==
  /\ seasons = <<>>
  /\ seasonKey = 0
  /\ teamSnapshots = <<>>
  /\ playerStats = <<>>
  /\ processedScreenshots = <<>>

InitUpload ==
  /\ uploadedFiles = [c \in Uploads |-> <<>>]
  /\ isProcessing = [c \in Uploads |-> FALSE]
  /\ processingResults = [c \in Uploads |-> <<>>]
  /\ pc = [c \in Uploads |-> "idle"]
  /\ runFiles = [c \in Uploads |-> <<>>]
  /\ idx = [c \in Uploads |-> 0]
  /\ results = [c \in Uploads |-> <<>>]
  /\ analysisResult = [c \in Uploads |-> NoResult]
  /\ currentSeason = [c \in Uploads |-> 0]
  /\ raced = FALSE
  /\ interfered = {}

InitHome ==
  /\ activeTab = "dashboard"
  /\ mountedUpload = "none"
  /\ hpc = "idle"
  /\ exportedData = NoExport
  /\ txCleared = 0

InitComponents ==
  /\ InitUpload
  /\ allSeasons = {}
  /\ dashSeason = 0
  /\ dpc = "idle"
  /\ pending = {}
  /\ target = 0
  /\ InitHome

InitCalls ==
  /\ analysisText = <<>>
  /\ parseResult = NotParsed
  /\ httpOutcome = NoOutcome
  /\ analysis = NotSettled
  /\ progressData = NotSettled
  /\ progressSeason = 0

Init == InitStore /\ InitComponents /\ InitCalls

Names == UNION {[1..n -> FileNames] : n \in 1..MaxFiles}

Next ==
  \/ \E c \in Uploads, names \in Names : handleFiles(c, names)
  \/ \E c \in Uploads : startProcessing(c)
  \/ \E c \in Uploads : lookup(c)
  \/ \E c \in Uploads : sendToApi(c)
  \/ \E c \in Uploads : readFails(c)
  \/ \E c \in Uploads, outcome \in ApiOutcomes : analyzed(c, outcome)
  \/ \E c \in Uploads : saveGetSeason(c)
  \/ \E c \in Uploads : saveCreateModify(c)
  \/ \E c \in Uploads : saveCreateAdd(c)
  \/ \E c \in Uploads : saveGetSeasonAgain(c)
  \/ \E c \in Uploads : saveAddTeamSnapshot(c)
  \/ \E c \in Uploads : saveAddPlayerStats(c)
  \/ \E c \in Uploads : markProcessed(c)

\* The upload session: every upload component, every outcome of the API.
Spec == Init /\ [][Next]_vars

(***************************************************************************)
(* One run with everything that can fail: the file read, the HTTP call,    *)
(* the reply, and each storage call of the loop and of the save.           *)
(***************************************************************************)
NextRun ==
  \/ \E names \in Names : handleFiles("u1", names)
  \/ startProcessing("u1")
  \/ lookup("u1")
  \/ lookupFails("u1")
  \/ sendToApi("u1")
  \/ readFails("u1")
  \/ \E outcome \in ApiOutcomes : analyzed("u1", outcome)
  \/ saveGetSeason("u1")
  \/ saveCreateModify("u1")
  \/ saveCreateAdd("u1")
  \/ saveGetSeasonAgain("u1")
  \/ saveAddTeamSnapshot("u1")
  \/ saveAddPlayerStats("u1")
  \/ saveFails("u1")
  \/ markProcessed("u1")
  \/ markFails("u1")

SpecRun == Init /\ [][NextRun]_vars

\* an awaited call of the run of c settles, one way or the other
runStep(c) ==
  \/ lookup(c)
  \/ lookupFails(c)
  \/ sendToApi(c)
  \/ readFails(c)
  \/ \E outcome \in ApiOutcomes : analyzed(c, outcome)
  \/ saveGetSeason(c)
  \/ saveCreateModify(c)
  \/ saveCreateAdd(c)
  \/ saveGetSeasonAgain(c)
  \/ saveAddTeamSnapshot(c)
  \/ saveAddPlayerStats(c)
  \/ saveFails(c)
  \/ markProcessed(c)
  \/ markFails(c)

\* the same run, under the condition that every awaited call settles
SpecRunFair == SpecRun /\ WF_vars(runStep("u1"))

(***************************************************************************)
(* The season session: the dashboard's handlers against the saves of one   *)
(* upload component, whose files all come back as a league table.          *)
(***************************************************************************)
LeagueOutcome == Text(Reply("league_table", "0.9", D_league))

NextSeasons ==
  \/ handleFiles("u1", <<"a.png">>)
  \/ startProcessing("u1")
  \/ lookup("u1")
  \/ sendToApi("u1")
  \/ analyzed("u1", LeagueOutcome)
  \/ saveGetSeason("u1")
  \/ saveCreateModify("u1")
  \/ saveCreateAdd("u1")
  \/ saveGetSeasonAgain("u1")
  \/ saveAddTeamSnapshot("u1")
  \/ markProcessed("u1")
  \/ loadData
  \/ createNewSeason
  \/ dashCreateModify
  \/ dashCreateAdd
  \/ \E id \in 1..(MaxSeasons + MaxFiles) : switchSeason(id)
  \/ \E id \in 1..(MaxSeasons + MaxFiles) : switchDeactivate(id)
  \/ switchActivate

SpecSeasons == Init /\ [][NextSeasons]_vars

(***************************************************************************)
(* The store session: the saves of one upload component next to Home's     *)
(* export and clear.                                                       *)
(***************************************************************************)
PlayersOutcome == Text(Reply("player_stats", "0.9", D_players))

NextStore ==
  \/ \E names \in Names : handleFiles("u1", names)
  \/ startProcessing("u1")
  \/ lookup("u1")
  \/ sendToApi("u1")
  \/ \E outcome \in {LeagueOutcome, PlayersOutcome} : analyzed("u1", outcome)
  \/ saveGetSeason("u1")
  \/ saveCreateModify("u1")
  \/ saveCreateAdd("u1")
  \/ saveGetSeasonAgain("u1")
  \/ saveAddTeamSnapshot("u1")
  \/ saveAddPlayerStats("u1")
  \/ markProcessed("u1")
  \/ exportStart
  \/ \E name \in ExportedTables : exportRead(name)
  \/ exportFails
  \/ clearStart
  \/ clearTable
  \/ clearCommit
  \/ clearAbort

SpecStore == Init /\ [][NextStore]_vars

(***************************************************************************)
(* The records session: every operation that writes the store.  The saves  *)
(* of one upload component, the dashboard's createNewSeason and            *)
(* switchSeason, and Home's clear.                                         *)
(***************************************************************************)
NextRecords ==
  \/ handleFiles("u1", <<"a.png">>)
  \/ startProcessing("u1")
  \/ lookup("u1")
  \/ sendToApi("u1")
  \/ analyzed("u1", LeagueOutcome)
  \/ saveGetSeason("u1")
  \/ saveCreateModify("u1")
  \/ saveCreateAdd("u1")
  \/ saveGetSeasonAgain("u1")
  \/ saveAddTeamSnapshot("u1")
  \/ markProcessed("u1")
  \/ loadData
  \/ (seasonKey < MaxKept /\ createNewSeason)
  \/ dashCreateModify
  \/ dashCreateAdd
  \/ \E id \in 1..(MaxKept + 1) : switchSeason(id)
  \/ \E id \in 1..(MaxKept + 1) : switchDeactivate(id)
  \/ switchActivate
  \/ clearStart
  \/ clearTable
  \/ clearCommit

SpecRecords == Init /\ [][NextRecords]_vars

(***************************************************************************)
(* The interpreter alone: parseAnalysisResult applied to a reply text.     *)
(* A reply is free text, then possibly an object, then free text; the      *)
(* object may be cut off before its closing brace (max_tokens reached).    *)
(***************************************************************************)
TypeTexts == ValidTypes \cup {"absent", "bogus", "\"\""}
ConfidenceTexts == {"absent", "\"high\"", "-0.1", "0", "0.31", "1", "1.5"}
DataTexts == {"absent", "null", "0", D_league}
ErrorsTexts == {"absent", "null", "[]", "[\"blurry\"]"}
NoteTexts == {"absent", "\"}\""}

Objects == [type : TypeTexts, confidence : ConfidenceTexts, data : DataTexts,
            errors : ErrorsTexts, note : NoteTexts]

MemberText(o, k) == IF o[k] = "absent" THEN <<>> ELSE <<Tok(k, o[k])>>

\* JSON.stringify of the object, members in the order of the prompt
Render(o) ==
  <<LB>> \o MemberText(o, "type") \o MemberText(o, "confidence")
         \o MemberText(o, "data") \o MemberText(o, "errors")
         \o MemberText(o, "note") \o <<RB>>

CutOff(text) == SubSeq(text, 1, Len(text) - 1)

Pads == UNION {[1..n -> {LB, RB, Prose}] : n \in 0..MaxPad}

Bodies == {<<>>} \cup {Render(o) : o \in Objects} \cup {CutOff(Render(o)) : o \in Objects}

InitParse ==
  /\ \E pre \in Pads, body \in Bodies, post \in Pads : analysisText = pre \o body \o post
  /\ parseResult = NotParsed
  /\ httpOutcome = NoOutcome
  /\ analysis = NotSettled
  /\ progressData = NotSettled
  /\ progressSeason = 0
  /\ InitStore
  /\ InitComponents

\* return this.parseAnalysisResult(analysisText)
Parse ==
  /\ parseResult = NotParsed
  /\ parseResult' = parseAnalysisResult(analysisText)
  /\ UNCHANGED <<analysisText, storeVars, uploadVars, dashVars, histVars,
                 tabVars, homeVars, fnVars>>

NextParse == Parse

SpecParse == InitParse /\ [][NextParse]_vars

(***************************************************************************)
(* The vision call alone: analyzeScreenshot applied to an outcome of the   *)
(* HTTP call, a failure or the text of a reply.                            *)
(***************************************************************************)
HttpFailures ==
  {Failure("throws"), Failure("status"), Failure("notjson"), Failure("badbody"),
   Failure("notext")}

HttpOutcomes == HttpFailures \cup {Text(body) : body \in Bodies}

InitAnalyze ==
  /\ httpOutcome \in HttpOutcomes
  /\ analysis = NotSettled
  /\ analysisText = <<>>
  /\ parseResult = NotParsed
  /\ progressData = NotSettled
  /\ progressSeason = 0
  /\ InitStore
  /\ InitComponents

\* const analysisResult = await claude.analyzeScreenshot(data, type)
Analyze ==
  /\ analysis = NotSettled
  /\ analysis' = analyzeScreenshotPromise(httpOutcome)
  /\ UNCHANGED <<parseVars, storeVars, uploadVars, dashVars, histVars, tabVars,
                 homeVars, httpOutcome, progressData, progressSeason>>

NextAnalyze == Analyze

SpecAnalyze == InitAnalyze /\ [][NextAnalyze]_vars

(***************************************************************************)
(* The files session: one upload component whose user adds and removes     *)
(* files at any moment, also while the run is in progress.                 *)
(***************************************************************************)
FileNumbers == 1..(MaxFiles + 1)

NextFiles ==
  \/ \E names \in Names : addFiles("u1", names)
  \/ \E n \in FileNumbers : removeFile("u1", FileId("u1", n))
  \/ startProcessing("u1")
  \/ lookup("u1")
  \/ sendToApi("u1")
  \/ readFails("u1")
  \/ \E outcome \in {LeagueOutcome, Failure("status")} : analyzed("u1", outcome)
  \/ saveGetSeason("u1")
  \/ saveCreateModify("u1")
  \/ saveCreateAdd("u1")
  \/ saveGetSeasonAgain("u1")
  \/ saveAddTeamSnapshot("u1")
  \/ markProcessed("u1")

SpecFiles == Init /\ [][NextFiles]_vars

(***************************************************************************)
(* The switching session: the store holds two seasons the dashboard        *)
(* created and has loaded, and from there the user only switches between   *)
(* them while one upload component runs.                                   *)
(***************************************************************************)
\* the store after createSeason was called twice from the dashboard
TwoSeasons ==
  addSeason(deactivateActive(addSeason(<<>>, 0, TRUE, Dashboard)), 1, TRUE, Dashboard)

InitSwitch ==
  /\ seasons = TwoSeasons
  /\ seasonKey = Len(TwoSeasons)
  /\ teamSnapshots = <<>>
  /\ playerStats = <<>>
  /\ processedScreenshots = <<>>
  /\ InitUpload
  /\ allSeasons = seasonIds(TwoSeasons)
  /\ dashSeason = getCurrentSeason(TwoSeasons)
  /\ dpc = "idle"
  /\ pending = {}
  /\ target = 0
  /\ InitHome
  /\ InitCalls

NextSwitch ==
  \/ \E names \in Names : handleFiles("u1", names)
  \/ startProcessing("u1")
  \/ lookup("u1")
  \/ sendToApi("u1")
  \/ analyzed("u1", LeagueOutcome)
  \/ saveGetSeason("u1")
  \/ saveCreateModify("u1")
  \/ saveCreateAdd("u1")
  \/ saveGetSeasonAgain("u1")
  \/ saveAddTeamSnapshot("u1")
  \/ markProcessed("u1")
  \/ loadData
  \/ \E id \in 1..(MaxSeasons + MaxFiles) : switchSeason(id)
  \/ \E id \in 1..(MaxSeasons + MaxFiles) : switchDeactivate(id)
  \/ switchActivate

SpecSwitch == InitSwitch /\ [][NextSwitch]_vars

(***************************************************************************)
(* The tab session: Home renders the component of the active tab only, so  *)
(* leaving the upload tab unmounts ScreenshotUpload and returning mounts a *)
(* new one with the initial state.  A run that is awaiting goes on after   *)
(* its component is unmounted.  An identity of Uploads whose run has ended *)
(* (or never started) stands for the next component mounted.               *)
(***************************************************************************)
Tabs == {"dashboard", "upload", "settings"}

\* the component c is not in a run
notRunning(c) == pc[c] \in {"idle", "done"}

\* onClick={() => setActiveTab(tab)} and the render that follows
setActiveTab(tab) ==
  /\ tab # activeTab
  /\ activeTab' = tab
  /\ IF tab = "upload"
     THEN \E c \in Uploads :
            /\ notRunning(c)
            /\ c = "u1" \/ ~notRunning("u1")
            /\ mountedUpload' = c
            /\ uploadedFiles' = [uploadedFiles EXCEPT ![c] = <<>>]
            /\ isProcessing' = [isProcessing EXCEPT ![c] = FALSE]
            /\ processingResults' = [processingResults EXCEPT ![c] = <<>>]
            /\ pc' = [pc EXCEPT ![c] = "idle"]
            /\ UNCHANGED <<loopVars, currentSeason>>
     ELSE /\ mountedUpload' = "none"
          /\ UNCHANGED uploadVars
  /\ UNCHANGED <<parseVars, fnVars, homeVars, storeVars, dashVars, histVars>>

NextTabs ==
  \/ \E tab \in Tabs : setActiveTab(tab)
  \/ \E c \in Uploads : mountedUpload = c /\ handleFiles(c, <<"a.png">>)
  \/ \E c \in Uploads : mountedUpload = c /\ startProcessing(c)
  \/ \E c \in Uploads : lookup(c)
  \/ \E c \in Uploads : sendToApi(c)
  \/ \E c \in Uploads : analyzed(c, LeagueOutcome)
  \/ \E c \in Uploads : saveGetSeason(c)
  \/ \E c \in Uploads : saveCreateModify(c)
  \/ \E c \in Uploads : saveCreateAdd(c)
  \/ \E c \in Uploads : saveGetSeasonAgain(c)
  \/ \E c \in Uploads : saveAddTeamSnapshot(c)
  \/ \E c \in Uploads : markProcessed(c)

SpecTabs == Init /\ [][NextTabs]_vars

(***************************************************************************)
(* The progress query alone: getProgressData applied to a store that saves *)
(* have filled.  A record carries the fields the query reads: its key, its *)
(* seasonId, its timestamp and its numbers.  saveExtractedData takes the   *)
(* timestamp and issues the add in one synchronous stretch, so timestamps  *)
(* never decrease in key order.                                            *)
(***************************************************************************)
TopCount == 10

\* Most saves in the store
MaxSaves == 2

\* Players in one player_stats screenshot
SquadSize == 6

\* the goals and assists of the players of a screenshot, in the order of
\* its players array
Squads ==
  {[i \in 1..SquadSize |->
      [goals   |-> IF m = 3 THEN i % 3 ELSE 1 + ((i * m) % 3),
       assists |-> IF m = 1 THEN i % 3 ELSE 1 + ((i + m) % 3)]] : m \in 1..3}

\* the latest timestamp in the store
lastTimestamp ==
  Max({0} \cup {teamSnapshots[i].timestamp : i \in 1..Len(teamSnapshots)}
          \cup {playerStats[i].timestamp : i \in 1..Len(playerStats)})

savesStored == Len(teamSnapshots) + (Len(playerStats) \div SquadSize)

\* await dbHelpers.addTeamSnapshot({ seasonId, timestamp, position, points, ... })
storeSnapshot(seasonId, position, tick) ==
  /\ savesStored < MaxSaves
  /\ teamSnapshots' = Append(teamSnapshots,
       [id |-> Len(teamSnapshots) + 1, seasonId |-> seasonId,
        timestamp |-> lastTimestamp + tick,
        position |-> position, points |-> 3 * position])
  /\ UNCHANGED <<seasons, seasonKey, playerStats, processedScreenshots>>
  /\ UNCHANGED <<parseVars, fnVars, homeVars, tabVars, uploadVars, dashVars, histVars>>

\* await dbHelpers.addPlayerStats(playerStats): every record of the bulkAdd
\* has the seasonId and the timestamp of the save
storePlayers(seasonId, squad, tick) ==
  /\ savesStored < MaxSaves
  /\ playerStats' = playerStats \o
       [i \in 1..Len(squad) |->
          [id |-> Len(playerStats) + i, seasonId |-> seasonId,
           timestamp |-> lastTimestamp + tick,
           goals |-> squad[i].goals, assists |-> squad[i].assists]]
  /\ UNCHANGED <<seasons, seasonKey, teamSnapshots, processedScreenshots>>
  /\ UNCHANGED <<parseVars, fnVars, homeVars, tabVars, uploadVars, dashVars, histVars>>

\* .where('seasonId').equals(seasonId)
whereSeason(table, seasonId) == SelectSeq(table, LAMBDA r : r.seasonId = seasonId)

\* mutant: the records come back latest first
RECURSIVE orderByReversed(_, _)
orderByReversed(rs, field) ==
  IF rs = <<>> THEN <<>>
  ELSE LET rest == orderByReversed(SubSeq(rs, 1, Len(rs) - 1), field)
           r    == rs[Len(rs)]
           k    == Cardinality({i \in 1..Len(rest) : rest[i][field] > r[field]})
       IN SubSeq(rest, 1, k) \o <<r>> \o SubSeq(rest, k + 1, Len(rest))

\* .orderBy(field): ascending in the field, records of one value in key order
RECURSIVE orderBy(_, _)
orderBy(rs, field) ==
  IF rs = <<>> THEN <<>>
  ELSE LET rest == orderBy(SubSeq(rs, 1, Len(rs) - 1), field)
           r    == rs[Len(rs)]
           k    == Cardinality({i \in 1..Len(rest) : rest[i][field] <= r[field]})
       IN SubSeq(rest, 1, k) \o <<r>> \o SubSeq(rest, k + 1, Len(rest))

getTeamSnapshots(seasonId) == orderBy(whereSeason(teamSnapshots, seasonId), "timestamp")

getPlayerStats(seasonId) == orderBy(whereSeason(playerStats, seasonId), "timestamp")

\* mutant: a sort that puts the later of two equal records first
RECURSIVE sortDescendingUnstable(_, _)
sortDescendingUnstable(rs, field) ==
  IF rs = <<>> THEN <<>>
  ELSE LET rest == sortDescendingUnstable(SubSeq(rs, 1, Len(rs) - 1), field)
           r    == rs[Len(rs)]
           k    == Cardinality({i \in 1..Len(rest) : rest[i][field] > r[field]})
       IN SubSeq(rest, 1, k) \o <<r>> \o SubSeq(rest, k + 1, Len(rest))

\* .sort((a, b) => b[field] - a[field]): Array.prototype.sort is stable, so
\* records of one value keep the order they had
RECURSIVE sortDescending(_, _)
sortDescending(rs, field) ==
  IF rs = <<>> THEN <<>>
  ELSE LET rest == sortDescending(SubSeq(rs, 1, Len(rs) - 1), field)
           r    == rs[Len(rs)]
           k    == Cardinality({i \in 1..Len(rest) : rest[i][field] >= r[field]})
       IN SubSeq(rest, 1, k) \o <<r>> \o SubSeq(rest, k + 1, Len(rest))

\* .slice(0, end)
slice(rs, end) == SubSeq(rs, 1, Min({end, Len(rs)}))

\* .filter(p => p[field] > 0).sort(...).slice(0, 10)
topBy(rs, field) ==
  slice(sortDescending(SelectSeq(rs, LAMBDA p : p[field] > 0), field), TopCount)

\* snapshot => ({ date: snapshot.timestamp, position, points, ... })
progressEntry(snapshot) ==
  [date |-> snapshot.timestamp, position |-> snapshot.position,
   points |-> snapshot.points]

getProgressData(seasonId) ==
  LET snapshots == getTeamSnapshots(seasonId)
      players   == getPlayerStats(seasonId)
  IN [teamProgress |-> [i \in 1..Len(snapshots) |-> progressEntry(snapshots[i])],
      topScorers   |-> topBy(players, "goals"),
      topAssists   |-> topBy(players, "assists")]

\* a caller awaits dbHelpers.getProgressData(seasonId) and it resolves
progress(seasonId) ==
  /\ progressData' = Resolved(getProgressData(seasonId))
  /\ progressSeason' = seasonId
  /\ UNCHANGED <<parseVars, storeVars, uploadVars, dashVars, histVars, tabVars,
                 homeVars, httpOutcome, analysis>>

\* one of its two storage reads rejects, and so does the call
progressFails(seasonId) ==
  /\ progressData' = Rejected
  /\ progressSeason' = seasonId
  /\ UNCHANGED <<parseVars, storeVars, uploadVars, dashVars, histVars, tabVars,
                 homeVars, httpOutcome, analysis>>

NextProgress ==
  \/ \E seasonId \in 1..MaxSeasons, tick \in 0..1 :
       storeSnapshot(seasonId, Len(teamSnapshots) + 1, tick)
  \/ \E seasonId \in 1..MaxSeasons, squad \in Squads :
       storePlayers(seasonId, squad, 1)
  \/ \E seasonId \in 1..MaxSeasons : progress(seasonId)
  \/ \E seasonId \in 1..MaxSeasons : progressFails(seasonId)

SpecProgress == Init /\ [][NextProgress]_vars

(***************************************************************************)
(* Properties of the upload session (Spec).                                *)
(***************************************************************************)
\* some record of the store was written by the handler of file id
WrittenFor(id) ==
  \/ \E i \in 1..Len(seasons) : seasons[i].src = id
  \/ \E i \in 1..Len(teamSnapshots) : teamSnapshots[i].src = id
  \/ \E i \in 1..Len(playerStats) : playerStats[i].src = id
  \/ \E i \in 1..Len(processedScreenshots) : processedScreenshots[i].src = id

\* the iteration of the n-th file of run c is over
IterationOver(c, n) == idx[c] > n \/ pc[c] = "done"

\* C1: a file whose analysis result has confidence <= 0.3 (0.3 included) or
\* no data payload leaves nothing in the store: no team snapshot, no player
\* record, no season and no dedup marker written for it.
C1_NothingWrittenBelowThreshold ==
  \A c \in Uploads : \A n \in 1..Len(results[c]) :
    LET e == results[c][n]
    IN (e.result.confidence <= 30 \/ e.result.data = "null") => ~WrittenFor(e.fileId)

\* a finished run that analysed one file at exactly 0.3 with a payload, for
\* which nothing was written, and another file above it that was saved
C1_Witness ==
  \E c \in Uploads : \E n, m \in 1..Len(results[c]) :
    /\ pc[c] = "done"
    /\ results[c][n].processed
    /\ results[c][n].result.confidence = 30
    /\ results[c][n].result.data = D_league
    /\ ~WrittenFor(results[c][n].fileId)
    /\ results[c][m].result.confidence = 31
    /\ WrittenFor(results[c][m].fileId)

\* C2 (as claimed): once the iteration of a file is over, a file analysed
\* with confidence > 0.3, a payload and one of the types league_table,
\* team_stats, player_stats has a team snapshot or player record of its own
\* in the store, tagged with the id of a season of the store.
C2_RecordForEveryType ==
  \A c \in Uploads : \A n \in 1..Len(results[c]) :
    LET e == results[c][n]
    IN ( /\ e.processed
         /\ IterationOver(c, n)
         /\ e.result.confidence > 30
         /\ e.result.data # "null"
         /\ e.result.type \in {"league_table", "team_stats", "player_stats"} )
       => \/ \E i \in 1..Len(teamSnapshots) :
               /\ teamSnapshots[i].src = e.fileId
               /\ teamSnapshots[i].seasonId \in {seasons[k].id : k \in 1..Len(seasons)}
          \/ \E i \in 1..Len(playerStats) :
               /\ playerStats[i].src = e.fileId
               /\ playerStats[i].seasonId \in {seasons[k].id : k \in 1..Len(seasons)}

\* C3 (as claimed): no step sends a file to the vision API while a dedup
\* marker for its filename is in the store.
C3_NeverSentOnceMarked ==
  [][\A c \in Uploads :
       (pc[c] = "read" /\ pc'[c] = "analyze") => ~isScreenshotProcessed(curFile(c).name)]_vars

\* the results the interpreter gives for a network error, a non-OK status,
\* a body without content and a reply that cannot be parsed
FailureResults ==
  {analyzeScreenshot(o) :
     o \in {Failure("throws"), Failure("status"), Failure("badbody"), Text(<<Prose>>)}}

\* C10: when the analysis of a file ends, whatever its outcome, the result is
\* appended to the run's results as that file's entry; and when the outcome is
\* a network error, a non-OK status or an unparseable reply the loop goes on:
\* to the lookup of the next file, or after the last file to the publication
\* of the results.
C10_FailureRecordedLoopGoesOn ==
  [][\A c \in Uploads :
       (pc[c] = "analyze" /\ pc'[c] # "analyze") =>
         /\ Len(results'[c]) = Len(results[c]) + 1
         /\ results'[c][Len(results'[c])] =
              [fileId |-> curFile(c).id, result |-> analysisResult'[c], processed |-> TRUE]
         /\ SubSeq(results'[c], 1, Len(results[c])) = results[c]
         /\ analysisResult'[c] \in FailureResults =>
              IF idx[c] < Len(runFiles[c])
              THEN pc'[c] = "lookup" /\ idx'[c] = idx[c] + 1
              ELSE pc'[c] = "done" /\ processingResults'[c] = results'[c]]_vars

\* a finished run of two files: the first failed, the second was analysed
\* after it, and both entries were published
C10_Witness ==
  \E c \in Uploads :
    /\ pc[c] = "done"
    /\ Len(processingResults[c]) = 2
    /\ processingResults[c][1].result \in FailureResults
    /\ processingResults[c][1].processed
    /\ processingResults[c][2].processed
    /\ processingResults[c][2].result.confidence > 30

\* the pcs of saveExtractedData
SavePcs == {"getSeason", "createModify", "createAdd", "getSeasonAgain",
            "addTeamSnapshot", "addPlayerStats"}

\* the run of c leaves the iteration of its current file in this step
LeavesFile(c) ==
  /\ pc[c] \notin {"idle", "done"}
  /\ \/ idx'[c] # idx[c]
     \/ pc'[c] = "done"

\* C16: within one run the files are handled one at a time in upload order.
\* The request in flight is the one of the current file, and every earlier
\* file of the run already has its result; the index moves by exactly one
\* file; and the run leaves a file only from the lookup that found its
\* marker, from a result that is not to be saved, from the marker write that
\* follows the returned save, or by an exception that ends the run: the
\* marker write starts only when saveExtractedData has returned.
C16_OneFileAtATime ==
  /\ [](\A c \in Uploads : pc[c] \in {"read", "analyze"} =>
            /\ Len(results[c]) = idx[c] - 1
            /\ \A n \in 1..Len(results[c]) : results[c][n].fileId = runFiles[c][n].id)
  /\ [][\A c \in Uploads :
         /\ (pc[c] # "idle" /\ idx'[c] # idx[c]) =>
              idx'[c] = idx[c] + 1 /\ pc'[c] = "lookup"
         /\ (pc'[c] = "mark" /\ pc[c] # "mark") => pc[c] \in SavePcs
         /\ (pc'[c] \in SavePcs /\ pc[c] \notin SavePcs) =>
              pc[c] = "analyze" /\ shouldSave(analysisResult'[c])
         /\ (LeavesFile(c) /\ pc'[c] = "lookup") =>
              \/ pc[c] = "lookup" /\ isScreenshotProcessed(curFile(c).name)
              \/ pc[c] = "analyze" /\ ~shouldSave(analysisResult'[c])
              \/ /\ pc[c] = "mark"
                 /\ Len(processedScreenshots') = Len(processedScreenshots) + 1
                 /\ processedScreenshots'[Len(processedScreenshots')].filename = curFile(c).name]_vars

\* the lookup of the second file is about to start, after the first file's
\* snapshot and marker were written
C16_Witness ==
  /\ pc["u1"] = "lookup"
  /\ idx["u1"] = 2
  /\ Len(results["u1"]) = 1
  /\ results["u1"][1].processed
  /\ Len(teamSnapshots) = 1
  /\ Len(processedScreenshots) = 1
  /\ processedScreenshots[1].filename = runFiles["u1"][1].name

\* C22: every marker in processedScreenshots belongs to a file of which a
\* team snapshot or player records were stored from the same analysis result
\* (no clear has run).
C22_MarkerOnlyAfterSavedRecord ==
  \A i \in 1..Len(processedScreenshots) :
    \/ \E j \in 1..Len(teamSnapshots) : teamSnapshots[j].src = processedScreenshots[i].src
    \/ \E j \in 1..Len(playerStats) : playerStats[j].src = processedScreenshots[i].src

\* C12 (as claimed): when a run has ended, whatever failed on the way, a
\* per-file result is published in processingResults for each file of the run.
C12_EveryFileHasPublishedResult ==
  \A c \in Uploads :
    pc[c] = "done" =>
      /\ Len(processingResults[c]) = Len(runFiles[c])
      /\ \A n \in 1..Len(runFiles[c]) : processingResults[c][n].fileId = runFiles[c][n].id

(***************************************************************************)
(* Properties of the season session (SpecSeasons).                         *)
(***************************************************************************)
\* C4: when a createSeason call (of the dashboard or of a save) adds its
\* season while a season already exists, and no other handler has written to
\* the seasons table since the call's own deactivation step, then after the
\* call exactly one season is active and it is the season just added.
C4_CreateSeasonLeavesNewestActive ==
  [][\A p \in Procs :
       (midCreate(p) /\ ~midCreate(p)' /\ p \notin interfered /\ Len(seasons) >= 1) =>
         /\ Len(seasons') = Len(seasons) + 1
         /\ ActiveSeasons(seasons') = {Len(seasons')}]_vars

\* the dashboard has just created a season next to an older one without
\* another handler cutting in: the new season alone is active
C4_Witness ==
  /\ dpc = "load"
  /\ target = 0
  /\ "dashboard" \notin interfered
  /\ Len(seasons) >= 2
  /\ seasons[Len(seasons)].src = Dashboard
  /\ seasons[Len(seasons)].isActive
  /\ ~seasons[Len(seasons) - 1].isActive

\* C5 (as claimed): at most one season is active in every reachable state,
\* under every interleaving of createSeason, switchSeason and the season
\* creation of a save.
C5_AtMostOneActive == Cardinality(ActiveSeasons(seasons)) <= 1

\* C5 (amended): at most one season is active in every state reached while
\* createSeason, switchSeason and the get-or-create of a save have run one at
\* a time (none began while another was under way) and every switchSeason
\* began with a season list holding exactly the seasons of the store.
C5_AtMostOneActiveWhenSerial == ~raced => Cardinality(ActiveSeasons(seasons)) <= 1

\* seasons created by a save and by the dashboard, then a switch, all one at
\* a time: one season is active
C5_Witness ==
  /\ ~raced
  /\ dpc = "load"
  /\ target # 0
  /\ \E i \in 1..Len(seasons) : seasons[i].src # Dashboard
  /\ \E i \in 1..Len(seasons) : seasons[i].src = Dashboard
  /\ Cardinality(ActiveSeasons(seasons)) = 1

\* this step is the last write of switchSeason; what is left of it is
\* loadData, which only reads
SwitchWrote == dpc = "activate" /\ dpc' = "load"

\* C19: when switchSeason(id) has made its updates, the season with that id
\* is active and every other season in the store is not, also a season that
\* was added after the dashboard loaded the list it deactivates from.
C19_SwitchLeavesOnlyTargetActive ==
  [][SwitchWrote =>
       {seasons'[i].id : i \in ActiveSeasons(seasons')} = {target}]_vars

(***************************************************************************)
(* Properties of the interpreter (SpecParse).                              *)
(***************************************************************************)
Parsed == parseResult # NotParsed

\* braces opened minus braces closed in text[i..j]
Depth(text, i, j) ==
  Cardinality({k \in i..j : HasOpenChar(text[k])})
    - Cardinality({k \in i..j : HasCloseChar(text[k])})

\* text[i..j] is a balanced {...} span
BalancedSpan(text, i, j) ==
  /\ i < j
  /\ HasOpenChar(text[i])
  /\ HasCloseChar(text[j])
  /\ Depth(text, i, j) = 0
  /\ \A k \in i..(j - 1) : Depth(text, i, k) > 0

HasBalancedSpan(text) ==
  \E i, j \in 1..Len(text) : BalancedSpan(text, i, j)

\* the balanced span that opens at the first "{" of the text
FirstBalancedSpan(text) ==
  LET i == Min(OpenAt(text))
      j == CHOOSE k \in 1..Len(text) : BalancedSpan(text, i, k)
  IN SubSeq(text, i, j)

HasFirstBalancedSpan(text) ==
  OpenAt(text) # {} /\ \E k \in 1..Len(text) : BalancedSpan(text, Min(OpenAt(text)), k)

\* the errors value is a list with at least one message
NonEmptyList(e) ==
  e \in {"[\"blurry\"]", "[\"Failed to parse analysis result\"]",
         "[\"Failed to fetch\"]", "[\"Claude API error: 500\"]",
         "[\"Cannot read properties of undefined\"]", "[\"Screenshot already processed\"]"}

IsFallback(r) ==
  r.type = "unknown" /\ r.confidence = 0 /\ r.data = "null" /\ NonEmptyList(r.errors)

\* the reply holds a span that is JSON
SpanIsJSON(text) == Matches(text) /\ IsJSON(jsonMatch(text))
\* ... and the type member of that JSON is one of the four
ValidReply(text) ==
  SpanIsJSON(text) /\ Member(jsonMatch(text), "type") \in ValidTypes

C7_ConfidenceCoercion ==
  (Parsed /\ ValidReply(analysisText)) =>
    LET c == Member(jsonMatch(analysisText), "confidence")
    IN /\ c \in {"absent", "\"high\""} => parseResult.confidence = 50
       /\ (c \in NumberTexts /\ (NumVal(c) < 0 \/ NumVal(c) > 100)) =>
            parseResult.confidence = 50
       /\ (c \in NumberTexts /\ 0 <= NumVal(c) /\ NumVal(c) <= 100) =>
            parseResult.confidence = NumVal(c)

\* a valid reply with confidence exactly 1 was parsed and kept it
C7_Witness ==
  /\ Parsed
  /\ ValidReply(analysisText)
  /\ Member(jsonMatch(analysisText), "confidence") = "1"
  /\ parseResult.confidence = 100

\* C8 (as claimed): for a reply whose JSON has a valid type, the result's
\* type, data and errors equal the parsed type, data and errors.
C8_FieldsUnchanged ==
  (Parsed /\ ValidReply(analysisText)) =>
    LET span == jsonMatch(analysisText)
    IN /\ parseResult.type = Member(span, "type")
       /\ parseResult.data = Member(span, "data")
       /\ parseResult.errors = Member(span, "errors")

\* C8 (amended): the type passes through unchanged; data and errors pass
\* through unchanged when they are truthy, while a falsy or absent data
\* becomes null and a falsy or absent errors becomes the empty list.
C8_FieldsUnchangedOrDefault ==
  (Parsed /\ ValidReply(analysisText)) =>
    LET span == jsonMatch(analysisText)
        d == Member(span, "data")
        e == Member(span, "errors")
    IN /\ parseResult.type = Member(span, "type")
       /\ d \notin {"absent", "null", "0", "false", "\"\""} => parseResult.data = d
       /\ d \in {"absent", "null", "0", "false", "\"\""} => parseResult.data = "null"
       /\ e \notin {"absent", "null", "0", "false", "\"\""} => parseResult.errors = e
       /\ e \in {"absent", "null", "0", "false", "\"\""} => parseResult.errors = "[]"

\* a valid reply whose data is 0 and whose confidence was coerced: data came
\* out null, the errors list came out as parsed
C8_Witness ==
  /\ Parsed
  /\ ValidReply(analysisText)
  /\ Member(jsonMatch(analysisText), "data") = "0"
  /\ Member(jsonMatch(analysisText), "errors") = "[\"blurry\"]"
  /\ Member(jsonMatch(analysisText), "confidence") = "1.5"
  /\ parseResult.data = "null"
  /\ parseResult.errors = "[\"blurry\"]"

\* C9 (as claimed): the result is the one described by the first balanced
\* {...} span of the reply, whatever text follows it.
C9_FirstBalancedSpanParsed ==
  (Parsed /\ HasFirstBalancedSpan(analysisText)) =>
    LET first == FirstBalancedSpan(analysisText)
    IN (IsJSON(first) /\ Member(first, "type") \in ValidTypes) =>
         parseResult = buildResult(JSONparse(first))

(***************************************************************************)
(* Properties of the vision call (SpecAnalyze).                            *)
(***************************************************************************)
\* the errors value is a list of exactly one message
OneMessage(e) ==
  e \in {"[\"Failed to fetch\"]", "[\"Claude API error: 500\"]",
         "[\"Unexpected token < in JSON\"]", "[\"Cannot read properties of undefined\"]",
         "[\"Failed to parse analysis result\"]"}

\* C11: analyzeScreenshot never rejects: whatever the HTTP call comes to, its
\* promise resolves; and when fetch throws, the status is not OK, the body is
\* not JSON or the body has no content[0].text, it resolves to a result with
\* type unknown, confidence 0, data null and an errors list of one message.
C11_NeverRejects ==
  analysis # NotSettled =>
    /\ analysis.state = "resolved"
    /\ httpOutcome \in HttpFailures =>
         /\ analysis.value.type = "unknown"
         /\ analysis.value.confidence = 0
         /\ analysis.value.data = "null"
         /\ OneMessage(analysis.value.errors)

\* the call settled after a response with a status that is not OK
C11_Witness ==
  /\ httpOutcome = Failure("status")
  /\ analysis.state = "resolved"
  /\ analysis.value.errors = "[\"Claude API error: 500\"]"

(***************************************************************************)
(* Properties of the store session (SpecStore).                            *)
(***************************************************************************)
\* the seasons, snapshots and player records now in the store
StoreContents ==
  [seasons |-> seasons, teamSnapshots |-> teamSnapshots, playerStats |-> playerStats]
\* the seasons, snapshots and player records of the exported document
Exported ==
  [seasons |-> exportedData.seasons, teamSnapshots |-> exportedData.teamSnapshots,
   playerStats |-> exportedData.playerStats]
ExportDone == exportedData.exportDate = "set"

\* every snapshot and player record of the three tables refers to a season
\* among the seasons given with them
RefersToSeasons(tables) ==
  /\ \A i \in 1..Len(tables.teamSnapshots) :
       tables.teamSnapshots[i].seasonId \in seasonIds(tables.seasons)
  /\ \A i \in 1..Len(tables.playerStats) :
       tables.playerStats[i].seasonId \in seasonIds(tables.seasons)

\* C23: in every state of the store the seasonId of every team snapshot and
\* of every player record is the id of a season in the seasons table.
C23_RecordsReferToStoredSeason == RefersToSeasons(StoreContents)

\* C27: the document exportData returns is consistent: every team snapshot
\* and player record in it has a seasonId that is among its seasons.
C27_ExportIsConsistent == ExportDone => RefersToSeasons(Exported)

\* this step ends the Clear All Data handler
ClearEnds == hpc = "clearing" /\ hpc' = "idle"

\* C13: when clearAllData ends after an exportData whose document holds what
\* is in the store (nothing was written in between), then, unless the clear
\* threw and changed nothing, the seasons, teamSnapshots and playerStats
\* tables are empty and the document still holds exactly the seasons,
\* snapshots and player records the store held before the clear.
C13_ExportThenClear ==
  [][(ClearEnds /\ ExportDone /\ Exported = StoreContents) =>
       \/ UNCHANGED storeVars
       \/ /\ seasons' = <<>>
          /\ teamSnapshots' = <<>>
          /\ playerStats' = <<>>
          /\ Exported' = StoreContents]_vars

\* a document with a season, a snapshot and player records was exported, and
\* the clear that followed has emptied the store
C13_Witness ==
  /\ hpc = "idle"
  /\ ExportDone
  /\ Len(exportedData.seasons) = 1
  /\ Len(exportedData.teamSnapshots) = 1
  /\ Len(exportedData.playerStats) = 2
  /\ seasons = <<>>
  /\ teamSnapshots = <<>>
  /\ playerStats = <<>>

AllTables == <<seasons, teamSnapshots, playerStats, processedScreenshots>>

\* C14: clearAllData is all-or-nothing: a step of the clear handler either
\* leaves the four tables as they are (the transaction is still open, or it
\* aborted and clearAllData threw) or leaves all four empty; it never leaves
\* some tables cleared and others not.
C14_ClearAllOrNothing ==
  [][(hpc = "clearing" /\ (hpc' # hpc \/ txCleared' # txCleared)) =>
       \/ UNCHANGED AllTables
       \/ AllTables' = <<(<<>>), (<<>>), (<<>>), (<<>>)>>]_vars

\* a run has saved a file and written its marker, and a clear has since
\* emptied all four tables
C14_Witness ==
  /\ hpc = "idle"
  /\ pc["u1"] = "done"
  /\ seasonKey >= 1
  /\ \E n \in 1..Len(processingResults["u1"]) :
        processingResults["u1"][n].result.confidence > 30
  /\ AllTables = <<(<<>>), (<<>>), (<<>>), (<<>>)>>

(***************************************************************************)
(* Properties of the records session (SpecRecords).                        *)
(***************************************************************************)
\* every record of the table before is still there after, unchanged, at its place
Kept(before, after) ==
  Len(before) <= Len(after) /\ SubSeq(after, 1, Len(before)) = before

\* the same, but the isActive flag of a record may differ
KeptButActive(before, after) ==
  /\ Len(before) <= Len(after)
  /\ \A i \in 1..Len(before) : [after[i] EXCEPT !.isActive = before[i].isActive] = before[i]

\* this step is the commit of clearAllData
ClearCommits == ClearEnds /\ AllTables' = <<(<<>>), (<<>>), (<<>>), (<<>>)>>

\* C15 (as claimed): no step changes a field of a stored season, team
\* snapshot, player record or marker, or deletes one, except clearAllData.
C15_AppendOnly ==
  [][\/ ClearCommits
     \/ /\ Kept(seasons, seasons')
        /\ Kept(teamSnapshots, teamSnapshots')
        /\ Kept(playerStats, playerStats')
        /\ Kept(processedScreenshots, processedScreenshots')]_vars

\* C15 (amended): no step changes or deletes a stored team snapshot, player
\* record or marker, and no step deletes a season or changes a field of it
\* other than isActive (which createSeason and switchSeason rewrite), except
\* clearAllData, which removes every record.
C15_AppendOnlyButActiveFlag ==
  [][\/ ClearCommits
     \/ /\ KeptButActive(seasons, seasons')
        /\ Kept(teamSnapshots, teamSnapshots')
        /\ Kept(playerStats, playerStats')
        /\ Kept(processedScreenshots, processedScreenshots')]_vars

\* a season that holds a snapshot has lost its isActive flag to a newer
\* season, and the snapshot and the marker are still in the store
C15_Witness ==
  /\ Len(seasons) = 2
  /\ ~seasons[1].isActive
  /\ seasons[2].isActive
  /\ Len(teamSnapshots) = 1
  /\ teamSnapshots[1].seasonId = seasons[1].id
  /\ Len(processedScreenshots) = 1

(***************************************************************************)
(* Properties of the files session (SpecFiles) and of the fair run         *)
(* (SpecRunFair).                                                          *)
(***************************************************************************)
\* C24: every entry of processingResults has the fileId of a file that is in
\* uploadedFiles: removeFile takes the file and its result away, and no later
\* step, the end of a run included, brings the result of a removed file back.
C24_ResultsOnlyOfUploadedFiles ==
  \A c \in Uploads : \A i \in 1..Len(processingResults[c]) :
    \E j \in 1..Len(uploadedFiles[c]) :
      uploadedFiles[c][j].id = processingResults[c][i].fileId

\* the run of c ends in this step with its results published, not by an
\* exception (which leaves results and processingResults as they are)
RunCompletes(c) ==
  /\ ~notRunning(c)
  /\ pc'[c] = "done"
  /\ ~(results'[c] = results[c] /\ processingResults'[c] = processingResults[c])

\* C25: a run that completes publishes exactly one entry for every file that
\* was in uploadedFiles when it started, in upload order; the entry of a file
\* has processed = false when the dedup lookup skipped the file and
\* processed = true when the file was sent for analysis.
C25_OneEntryPerFileOfTheRun ==
  [][\A c \in Uploads :
       /\ (pc[c] = "idle" /\ pc'[c] # "idle") => runFiles'[c] = uploadedFiles[c]
       /\ ~notRunning(c) =>
            /\ runFiles'[c] = runFiles[c]
            /\ SubSeq(results'[c], 1, Len(results[c])) = results[c]
            /\ results'[c] # results[c] =>
                 /\ Len(results'[c]) = Len(results[c]) + 1
                 /\ results'[c][Len(results'[c])].fileId = curFile(c).id
                 /\ \/ /\ pc[c] = "lookup"
                       /\ isScreenshotProcessed(curFile(c).name)
                       /\ ~results'[c][Len(results'[c])].processed
                    \/ /\ pc[c] = "analyze"
                       /\ results'[c][Len(results'[c])].processed
       /\ RunCompletes(c) =>
            /\ processingResults'[c] = results'[c]
            /\ Len(processingResults'[c]) = Len(runFiles[c])
            /\ \A n \in 1..Len(runFiles[c]) :
                 processingResults'[c][n].fileId = runFiles[c][n].id]_vars

\* a run of two files of one name has published: the first was sent, the
\* second skipped, and one of them was removed from uploadedFiles meanwhile
C25_Witness ==
  /\ pc["u1"] = "done"
  /\ Len(runFiles["u1"]) = 2
  /\ Len(processingResults["u1"]) = 2
  /\ processingResults["u1"][1].processed
  /\ ~processingResults["u1"][2].processed
  /\ Len(uploadedFiles["u1"]) = 1

\* C26: a run that has set isProcessing sets it back to false, when the loop
\* completes and when an exception leaves it, provided every awaited call
\* settles.
C26_ProcessingEnds ==
  \A c \in Uploads : isProcessing[c] ~> ~isProcessing[c]

\* a run has ended by an exception after its first file was recorded, and
\* isProcessing is false again
C26_Witness ==
  /\ pc["u1"] = "done"
  /\ ~isProcessing["u1"]
  /\ Len(runFiles["u1"]) = 2
  /\ Len(results["u1"]) = 1
  /\ processingResults["u1"] = <<>>

(***************************************************************************)
(* Properties of the switching session (SpecSwitch).                       *)
(***************************************************************************)
\* C21: while a season exists and the user only switches between seasons, a
\* save never adds a season to the store, also not when its getCurrentSeason
\* falls between the deactivations and the activation of a switchSeason.
C21_SaveAddsNoSeasonWhileSwitching == [][Len(seasons') = Len(seasons)]_vars

(***************************************************************************)
(* Properties of the tab session (SpecTabs).                               *)
(***************************************************************************)
RunsInProgress == {c \in Uploads : ~notRunning(c)}

\* C20: at most one processScreenshots run is in progress at any time, also
\* when the upload tab is left during a run and entered again.
C20_AtMostOneRun == Cardinality(RunsInProgress) <= 1

(***************************************************************************)
(* Properties of the progress query (SpecProgress).                        *)
(***************************************************************************)
\* this step is a call of getProgressData that resolves
ProgressResolves ==
  /\ UNCHANGED storeVars
  /\ progressSeason' # 0
  /\ progressData'.state = "resolved"

Range(seq) == {seq[i] : i \in 1..Len(seq)}

\* top is a top list of the stored player records of the season by field
IsTopList(top, field, seasonId) ==
  LET season == {r \in Range(playerStats) : r.seasonId = seasonId}
  IN /\ Len(top) <= 10
     /\ \A i \in 1..Len(top) : top[i] \in season /\ top[i][field] > 0
     /\ \A i, j \in 1..Len(top) :
          i < j => /\ top[i][field] >= top[j][field]
                   /\ top[i][field] = top[j][field] => top[i].id < top[j].id
     /\ \A r \in season \ Range(top) :
          \A i \in 1..Len(top) : r[field] <= top[i][field]

\* C17: what getProgressData(seasonId) returns as topScorers (topAssists) is
\* at most 10 player records of that season, each with goals (assists) > 0,
\* in non-increasing order of goals (assists), records of equal value in the
\* order of their keys, and no record of the season left out has a larger
\* value than one that is in.
C17_TopLists ==
  [][ProgressResolves =>
       /\ IsTopList(progressData'.value.topScorers, "goals", progressSeason')
       /\ IsTopList(progressData'.value.topAssists, "assists", progressSeason')]_vars

\* the season has more than ten scorers, so two are left out, and the list
\* holds records of equal goals
C17_Witness ==
  /\ progressData = Resolved(getProgressData(progressSeason))
  /\ progressSeason # 0
  /\ Len(progressData.value.topScorers) = TopCount
  /\ Cardinality({r \in Range(playerStats) :
                    r.seasonId = progressSeason /\ r.goals > 0}) > TopCount
  /\ \E i, j \in 1..TopCount :
       /\ i < j
       /\ progressData.value.topScorers[i].goals = progressData.value.topScorers[j].goals

\* how often an entry occurs in a sequence
Occurrences(seq, e) == Cardinality({i \in 1..Len(seq) : seq[i] = e})

\* C18: what getProgressData(seasonId) returns as teamProgress has one entry
\* for every stored team snapshot of that season and none for a snapshot of
\* another season, in non-decreasing order of the snapshots' timestamps.
C18_TeamProgress ==
  [][ProgressResolves =>
       LET entries == progressData'.value.teamProgress
           season  == whereSeason(teamSnapshots, progressSeason')
       IN /\ Len(entries) = Len(season)
          /\ \A e \in Range(entries) \cup {progressEntry(r) : r \in Range(season)} :
               Occurrences(entries, e) =
                 Cardinality({i \in 1..Len(season) : progressEntry(season[i]) = e})
          /\ \A i, j \in 1..Len(entries) :
               i < j => entries[i].date <= entries[j].date]_vars

\* two snapshots of one season taken at different times are both reported,
\* the earlier one first
C18_Witness ==
  /\ progressData = Resolved(getProgressData(progressSeason))
  /\ progressSeason # 0
  /\ Len(progressData.value.teamProgress) = 2
  /\ progressData.value.teamProgress[1].date < progressData.value.teamProgress[2].date

====
